---- MODULE Spec2Model ----
(***************************************************************************)
(* Model of the resumable OCR page pipeline of christliche-dogmatik        *)
(* (src/main.ts): processPdfDocument with its retry loop, the recognition  *)
(* call processPageWithGemini, the resume scan getLastProcessedPageByTex   *)
(* and the assembly of main.tex.                                           *)
(*                                                                         *)
(* Files are modelled by their content: pageTex[n] is the content of       *)
(* output/page<n>.tex (NoFile when it does not exist), mainTex is main.tex *)
(* as the sequence of its parts (preamble, \include lines, \end{document}).*)
(* An error is modelled by what its toString() contains, because that is   *)
(* all the retry loop looks at.                                            *)
(***************************************************************************)
EXTENDS Integers, Sequences, FiniteSets, TLC

\* ------------------------------------------------------------------ bounds
MaxPages == 3
MaxRuns == 2

\* --------------------------------------------------------------- constants
MAX_RETRIES == 3
DEFAULT_RETRY_SECONDS == 20
QuotaDelaySeconds == 5

NoFile == "<no file>"
NoDelay == -1
NoBuffer == 0
Pages == 1..MaxPages
OcrTexts == {"textA"}

\* ------------------------------------------------------------------ errors
\* new Error(msg): toString() is "Error: " + msg.
Error(msg) ==
  [name |-> "Error", msg |-> msg, status |-> "", retryDelay |-> NoDelay]

\* The ApiError the recognition service's client throws: toString() carries the
\* service's JSON, with its status and, for a 429, possibly "retryDelay":"<n>s".
ApiError(status, retryDelay) ==
  [name |-> "ApiError", msg |-> "", status |-> status, retryDelay |-> retryDelay]

\* errStr.includes(s) for the three substrings the retry loop looks for.
ErrStrIncludes(error, s) ==
  CASE s = "ApiError" -> error.name = "ApiError"
    [] s = "RESOURCE_EXHAUSTED" -> error.status = "RESOURCE_EXHAUSTED"
    [] s = "retryDelay" -> error.retryDelay # NoDelay
    [] OTHER -> FALSE

\* The condition of both catch blocks of the retry loop.
IsQuotaError(error) ==
  /\ ErrStrIncludes(error, "ApiError")
  /\ ErrStrIncludes(error, "RESOURCE_EXHAUSTED")
  /\ ErrStrIncludes(error, "retryDelay")

\* match ? parseInt(match[1], 10) : 20
RetrySeconds(error) ==
  IF error.retryDelay >= 0 THEN error.retryDelay ELSE DEFAULT_RETRY_SECONDS

\* What the recognition service can answer to one generateContent call.
ServiceOutcomes ==
  [r : {"json"}, content : OcrTexts, error : {Error("")}]
    \cup [r : {"jsonNoContent", "badJson", "noText"}, content : {""},
          error : {Error("")}]
    \cup [r : {"throw"}, content : {""},
          error : {ApiError("RESOURCE_EXHAUSTED", QuotaDelaySeconds),
                   ApiError("RESOURCE_EXHAUSTED", NoDelay),
                   ApiError("INTERNAL", NoDelay)}]

\* The service signals rate-limit/quota exhaustion (HTTP 429).
ServiceSignalsQuota(outcome) ==
  outcome.r = "throw" /\ outcome.error.status = "RESOURCE_EXHAUSTED"

\* The duration the service reported with a quota failure, 20 s when none.
ReportedWait(outcome) ==
  IF outcome.error.retryDelay >= 0 THEN outcome.error.retryDelay
  ELSE DEFAULT_RETRY_SECONDS

Thrown(error) == [ok |-> FALSE, value |-> "", error |-> error]
Returned(value) == [ok |-> TRUE, value |-> value, error |-> Error("")]

\* pageImageBuffers.map(...).filter(Boolean): the present buffers, in order.
imageParts(pageImageBuffers) ==
  SelectSeq(pageImageBuffers, LAMBDA buf : buf # NoBuffer)

\* The inner try of processPageWithGemini: the response is parsed, and any
\* failure to parse is thrown as a new Error.
ParseResponse(outcome) ==
  CASE outcome.r = "json" -> Returned(outcome.content)
    [] outcome.r = "jsonNoContent" -> Returned("")
    [] OTHER ->
         Thrown(Error("Antwort konnte nicht als JSON-Objekt interpretiert werden."))

\* The body of the outer try of processPageWithGemini: the call and the parse.
GeminiTry(outcome) ==
  IF outcome.r = "throw" THEN Thrown(outcome.error) ELSE ParseResponse(outcome)

\* The outer catch of processPageWithGemini: whatever was thrown inside the
\* try is logged and replaced by a new Error.
GeminiCatch(error) == Error("API-Anfrage fehlgeschlagen.")

processPageWithGemini(apiKeySet, pageImageBuffers, outcome) ==
  IF ~apiKeySet
  THEN Thrown(Error("GEMINI_API_KEY Umgebungsvariable nicht gesetzt."))
  ELSE LET res == GeminiTry(outcome)
       IN IF res.ok THEN res ELSE Thrown(GeminiCatch(res.error))

\* ------------------------------------------------------------------- files
Preamble == [t |-> "preamble", n |-> 0]
Include(n) == [t |-> "include", n |-> n]
EndDocument == [t |-> "end", n |-> 0]

\* main.tex as setupWorkspace writes it: the preamble, and no \end{document}.
initialContent == <<Preamble>>

PageTexName(n) == [kind |-> "pageTex", n |-> n]
MainTexName == [kind |-> "other", n |-> 0]

\* /^page\d+\.tex$/.test(f)
IsPageTexName(f) == f.kind = "pageTex"

\* parseInt(f.match(/\d+/)![0], 10)
PageNumberOf(f) == f.n

RECURSIVE MathMax(_)
MathMax(numbers) ==
  IF Len(numbers) = 1 THEN Head(numbers)
  ELSE LET rest == MathMax(Tail(numbers))
       IN IF Head(numbers) > rest THEN Head(numbers) ELSE rest

\* A mutant of getLastProcessedPageByTex: the last listed page file is taken for
\* the highest one.
getLastProcessedPageByTex_LastListed(files) ==
  LET pageTexFiles == SelectSeq(files, IsPageTexName)
  IN IF Len(pageTexFiles) = 0 THEN 0
     ELSE PageNumberOf(pageTexFiles[Len(pageTexFiles)])

\* files: the directory listing, in the order readdir delivers it.
getLastProcessedPageByTex(files) ==
  LET pageTexFiles == SelectSeq(files, IsPageTexName)
  IN IF Len(pageTexFiles) = 0 THEN 0
     ELSE MathMax([k \in 1..Len(pageTexFiles) |-> PageNumberOf(pageTexFiles[k])])

\* mainTexContent.includes("\\end{document}")
IncludesEndDocument(parts) == \E k \in 1..Len(parts) : parts[k] = EndDocument

\* mainTexContent.lastIndexOf("\\end{document}")
LastIndexOfEndDocument(parts) ==
  CHOOSE k \in 1..Len(parts) :
    /\ parts[k] = EndDocument
    /\ \A j \in (k + 1)..Len(parts) : parts[j] # EndDocument

\* A mutant of InsertInclude: the include line goes after \end{document}.
InsertInclude_AfterMarker(parts, pageNum) ==
  IF IncludesEndDocument(parts)
  THEN LET idx == LastIndexOfEndDocument(parts)
       IN SubSeq(parts, 1, idx) \o <<Include(pageNum)>>
            \o SubSeq(parts, idx + 1, Len(parts))
  ELSE Append(parts, Include(pageNum))

\* A mutant of InsertInclude: the include line is always appended.
InsertInclude_AlwaysAppend(parts, pageNum) == Append(parts, Include(pageNum))

\* The new content of main.tex: the include line goes right before the last
\* \end{document}, or at the end when there is none.
InsertInclude(parts, pageNum) ==
  IF IncludesEndDocument(parts)
  THEN LET idx == LastIndexOfEndDocument(parts)
       IN SubSeq(parts, 1, idx - 1) \o <<Include(pageNum)>>
            \o SubSeq(parts, idx, Len(parts))
  ELSE Append(parts, Include(pageNum))

\* The content of main.tex after the closing step of processPdfDocument.
FinalContent(parts) ==
  IF ~IncludesEndDocument(parts) THEN Append(parts, EndDocument) ELSE parts

\* ----------------------------------------------------------- context window
RenderOutcomes == {"image", "empty", "throw"}

\* A mutant of InRange: the lower end of the document is not checked.
InRange_NoLowerCheck(pageIdx, total) == ~(pageIdx > total)

\* The negation of getImageBuffer's early return.
InRange(pageIdx, total) == ~(pageIdx < 1 \/ pageIdx > total)

\* getImageBuffer(pageIdx) when the converter answers `outcome`: whether the
\* converter was asked, whether it threw, and the buffer returned (the image is
\* identified by the page it shows).
getImageBuffer(pageIdx, total, outcome) ==
  IF ~InRange(pageIdx, total)
  THEN [asked |-> FALSE, threw |-> FALSE, buf |-> NoBuffer]
  ELSE [asked |-> TRUE, threw |-> outcome = "throw",
        buf |-> IF outcome = "image" THEN pageIdx ELSE NoBuffer]

\* -------------------------------------------------------------------- state
VARIABLES
  \* the output directory and the document
  pageTex,        \* pageTex[n]: content of page<n>.tex, NoFile when absent
  mainTex,        \* main.tex: [exists, parts]
  totalPages,     \* pdfDoc.getPageCount()
  \* the running process (processPdfDocument)
  pc,             \* where the process is; "idle" when no process runs
  apiKeySet,      \* process.env.GEMINI_API_KEY is set
  i,              \* the page loop's variable; pageNum is i + 1
  attempt,        \* the retry loop's variable
  success,
  lastError,
  prevBuffer, currBuffer, nextBuffer,
  ocrContent,
  \* what an observer of the process has seen
  runs,           \* processes started so far
  unitsAtStart,   \* the page files that existed when this run began
  attempted,      \* pages this run began an attempt on, in order
  recordedLog,    \* pages this run recorded (both writes done), in order
  nonQuotaFails,  \* failed attempts on this page the service did not signal as quota
  quotaFails,     \* failed attempts on this page the service signalled as quota
  owed,           \* seconds the service asked to wait, over this page's quota failures
  waited,         \* seconds the process slept on this page
  failedPage,     \* the page this run gave up on, 0 when none
  notifyLog,      \* the calls of sendPushoverNotification in this run
  renderReq,      \* page indices passed to the converter in this attempt
  recorded,       \* pages ever recorded, over all runs
  finalized,      \* some run has completed its closing step
  runClean,       \* nothing failed in this run so far
  reachedWrite,   \* an attempt on this page got past the recognition call
  lastStep        \* what the step just taken saw and did

fileVars == <<pageTex, mainTex, totalPages>>
loopVars == <<i, attempt, success, lastError, ocrContent>>
windowVars == <<prevBuffer, currBuffer, nextBuffer, renderReq>>
pageObs == <<nonQuotaFails, quotaFails, owed, waited, reachedWrite>>
runObs == <<runs, unitsAtStart, attempted, recordedLog, failedPage, notifyLog,
            recorded, finalized, runClean>>
vars == <<fileVars, pc, apiKeySet, loopVars, windowVars, pageObs, runObs,
          lastStep>>

\* A step as an observer records it: the operation; for a window, what the
\* converter delivered for the previous, current and next page ("none" when it
\* was not asked); for a recognition call, the kind of answer ("noKey" when the
\* call was not made); for a recorded page, the page, the failures before it
\* and the seconds slept; for a fragment write, the page and what its page
\* file held before; for the start of a run, the page the run before it gave
\* up (0 when none) and what that page's file holds.
Step(op) ==
  [op |-> op, seen |-> <<"none", "none", "none">>, answer |-> "", page |-> 0,
   nonQuota |-> 0, quota |-> 0, waited |-> 0, before |-> NoFile]

NoError == [name |-> "null", msg |-> "", status |-> "", retryDelay |-> NoDelay]

pageNum == i + 1

ExistingUnits == {n \in Pages : pageTex[n] # NoFile}

\* The entries of the output directory.
DirEntries ==
  {PageTexName(n) : n \in ExistingUnits}
    \cup (IF mainTex.exists THEN {MainTexName} ELSE {})

\* The orders in which readdir may list the entries.
RECURSIVE Listings(_)
Listings(entries) ==
  IF entries = {} THEN {<<>>}
  ELSE UNION {{<<f>> \o rest : rest \in Listings(entries \ {f})} : f \in entries}

IncludedPages(parts) ==
  [k \in 1..Len(SelectSeq(parts, LAMBDA x : x.t = "include")) |->
     SelectSeq(parts, LAMBDA x : x.t = "include")[k].n]

CountOf(parts, x) == Cardinality({k \in 1..Len(parts) : parts[k] = x})

\* Nothing is left of the previous attempts: the state at the start of a page.
ResetPage ==
  /\ success' = FALSE
  /\ lastError' = NoError
  /\ ocrContent' = ""
  /\ prevBuffer' = NoBuffer /\ currBuffer' = NoBuffer /\ nextBuffer' = NoBuffer
  /\ renderReq' = {}
  /\ nonQuotaFails' = 0 /\ quotaFails' = 0 /\ owed' = 0 /\ waited' = 0
  /\ reachedWrite' = FALSE

\* let success = false; let lastError = null; attempt = 1
BeginPage == attempt' = 1 /\ ResetPage

\* The state when no process runs.
NoProcess == apiKeySet' = FALSE /\ i' = 0 /\ attempt' = 0 /\ ResetPage

Init ==
  /\ pageTex = [n \in Pages |-> NoFile]
  /\ mainTex = [exists |-> FALSE, parts |-> <<>>]
  /\ totalPages \in Pages
  /\ pc = "idle"
  /\ apiKeySet = FALSE
  /\ i = 0 /\ attempt = 0 /\ success = FALSE /\ lastError = NoError
  /\ ocrContent = ""
  /\ prevBuffer = NoBuffer /\ currBuffer = NoBuffer /\ nextBuffer = NoBuffer
  /\ renderReq = {}
  /\ nonQuotaFails = 0 /\ quotaFails = 0 /\ owed = 0 /\ waited = 0
  /\ reachedWrite = FALSE /\ lastStep = Step("none")
  /\ runs = 0 /\ unitsAtStart = {} /\ attempted = <<>> /\ recordedLog = <<>>
  /\ failedPage = 0 /\ notifyLog = <<>> /\ recorded = {} /\ finalized = FALSE
  /\ runClean = TRUE

\* What the resume scan can return for a directory with these entries, over the
\* orders in which readdir may list them.
ScanResults(entries) ==
  {getLastProcessedPageByTex(files) : files \in Listings(entries)}

\* A mutant of FirstLoopIndex: the page loop starts one page too far.
FirstLoopIndex_SkipOne(lastProcessedPage) == lastProcessedPage + 1

\* A mutant of FirstLoopIndex: the page loop starts at the last page recorded.
FirstLoopIndex_Redo(lastProcessedPage) ==
  IF lastProcessedPage > 0 THEN lastProcessedPage - 1 ELSE 0

\* for (let i = lastProcessedPage; ...)
FirstLoopIndex(lastProcessedPage) == lastProcessedPage

\* The start of processPdfDocument: setupWorkspace, the resume scan, the page
\* count, and the entry into the page loop.
StartRun ==
  /\ pc \in {"idle", "done"}
  /\ runs < MaxRuns
  /\ \E key \in BOOLEAN :
       \E lastProcessedPage \in ScanResults(DirEntries \cup {MainTexName}) :
         LET first == FirstLoopIndex(lastProcessedPage)
         IN /\ BeginPage
            /\ apiKeySet' = key
            /\ i' = first
            /\ pc' = IF first < totalPages THEN "render" ELSE "finalize"
  /\ mainTex' = IF mainTex.exists THEN mainTex
                ELSE [exists |-> TRUE, parts |-> initialContent]
  /\ runs' = runs + 1
  /\ unitsAtStart' = ExistingUnits
  /\ attempted' = <<>> /\ recordedLog' = <<>>
  /\ failedPage' = 0 /\ notifyLog' = <<>>
  /\ runClean' = TRUE
  /\ lastStep' = [Step("start") EXCEPT
                    !.page = failedPage,
                    !.before = IF failedPage = 0 THEN NoFile
                               ELSE pageTex[failedPage]]
  /\ UNCHANGED <<pageTex, totalPages, recorded, finalized>>

\* A mutant of AfterLoop: a page without success is passed over in silence.
AfterLoop_NoNotify(ok) == "finalize"

\* Where the process goes when the retry loop has ended without a break:
\* if (!success) it notifies the operator and leaves the page loop.
AfterLoop(ok) == IF ~ok THEN "notify" ELSE "nextPage"

\* A mutant of NextAttemptStart: a new attempt keeps the window of the last one
\* and starts at the recognition call.
NextAttemptStart_KeepWindow == "recognize"

\* Where the body of the retry loop begins: at the getImageBuffer calls.
NextAttemptStart == "render"

\* The outer catch of the retry loop, then the loop's attempt++ and its test:
\* the next attempt starts, or the loop ends without success and the page is
\* given up. quota: whether the service had signalled quota exhaustion.
AttemptFails(error, quota, reportedWait, slept) ==
  LET afterCatch == IF IsQuotaError(error) THEN attempt - 1 ELSE attempt
      next == afterCatch + 1
  IN /\ lastError' = error
     /\ attempt' = next
     /\ pc' = IF next <= MAX_RETRIES THEN NextAttemptStart
              ELSE AfterLoop(success)
     /\ failedPage' = IF next <= MAX_RETRIES THEN failedPage ELSE pageNum
     /\ nonQuotaFails' = IF quota THEN nonQuotaFails ELSE nonQuotaFails + 1
     /\ quotaFails' = IF quota THEN quotaFails + 1 ELSE quotaFails
     /\ owed' = owed + reportedWait
     /\ waited' = waited + slept
     /\ runClean' = FALSE
     /\ ocrContent' = ""
     /\ prevBuffer' = NoBuffer /\ currBuffer' = NoBuffer /\ nextBuffer' = NoBuffer
     /\ renderReq' = {}
     /\ UNCHANGED <<i, success, apiKeySet, reachedWrite>>
     /\ UNCHANGED <<runs, unitsAtStart, recordedLog, notifyLog, recorded, finalized>>

\* A mutant of CurrentMissing: a missing neighbour is taken for a failure too.
CurrentMissing_AnyMissing(prevBuf, currBuf, nextBuf) ==
  prevBuf = NoBuffer \/ currBuf = NoBuffer \/ nextBuf = NoBuffer

\* if (!currBuffer)
CurrentMissing(prevBuf, currBuf, nextBuf) == currBuf = NoBuffer

\* The three getImageBuffer calls of an attempt and the test of currBuffer.
BuildWindow ==
  /\ pc = "render"
  /\ attempted' = IF attempted # <<>> /\ attempted[Len(attempted)] = pageNum
                  THEN attempted ELSE Append(attempted, pageNum)
  /\ UNCHANGED fileVars
  /\ \E oPrev, oCurr, oNext \in RenderOutcomes :
       LET prev == getImageBuffer(pageNum - 1, totalPages, oPrev)
           curr == getImageBuffer(pageNum, totalPages, oCurr)
           next == getImageBuffer(pageNum + 1, totalPages, oNext)
           seen == <<IF prev.asked THEN oPrev ELSE "none",
                     IF curr.asked /\ ~prev.threw THEN oCurr ELSE "none",
                     IF next.asked /\ ~prev.threw /\ ~curr.threw
                     THEN oNext ELSE "none">>
       IN /\ lastStep' = [Step("window") EXCEPT !.seen = seen]
          /\ IF prev.threw \/ curr.threw \/ next.threw
             THEN AttemptFails(Error("converter"), FALSE, 0, 0)
             ELSE IF CurrentMissing(prev.buf, curr.buf, next.buf)
             THEN AttemptFails(Error("Seitenbild konnte nicht extrahiert werden."),
                               FALSE, 0, 0)
             ELSE /\ prevBuffer' = prev.buf
                  /\ currBuffer' = curr.buf
                  /\ nextBuffer' = next.buf
                  /\ renderReq' = {n \in {pageNum - 1, pageNum, pageNum + 1} :
                                     \/ n = pageNum - 1 /\ prev.asked
                                     \/ n = pageNum /\ curr.asked
                                     \/ n = pageNum + 1 /\ next.asked}
                  /\ pc' = "recognize"
                  /\ UNCHANGED <<apiKeySet, loopVars, pageObs>>
                  /\ UNCHANGED <<runs, unitsAtStart, recordedLog, failedPage,
                                 notifyLog, recorded, finalized, runClean>>

\* The kind of answer a recognition call got, as an observer names it.
AnswerKind(keySet, outcome) ==
  IF ~keySet THEN "noKey"
  ELSE IF outcome.r # "throw" THEN outcome.r
  ELSE IF ServiceSignalsQuota(outcome) THEN "quota" ELSE "fault"

\* The call of processPageWithGemini with its catch in the retry loop: on a
\* quota error the process sleeps, and the error is thrown on in either case.
Recognize ==
  /\ pc = "recognize"
  /\ UNCHANGED fileVars
  /\ UNCHANGED attempted
  /\ \E outcome \in ServiceOutcomes :
       LET pageImageBuffers == <<prevBuffer, currBuffer, nextBuffer>>
           res == processPageWithGemini(apiKeySet, pageImageBuffers, outcome)
           quota == apiKeySet /\ ServiceSignalsQuota(outcome)
       IN /\ lastStep' = [Step("call") EXCEPT
                            !.answer = AnswerKind(apiKeySet, outcome)]
          /\ IF res.ok
             THEN /\ ocrContent' = res.value
                  /\ pc' = "writeFragment"
                  /\ reachedWrite' = TRUE
                  /\ UNCHANGED <<apiKeySet, i, attempt, success, lastError>>
                  /\ UNCHANGED <<windowVars, nonQuotaFails, quotaFails, owed,
                                 waited>>
                  /\ UNCHANGED <<runs, unitsAtStart, recordedLog, failedPage,
                                 notifyLog, recorded, finalized, runClean>>
             ELSE AttemptFails(res.error, quota,
                               IF quota THEN ReportedWait(outcome) ELSE 0,
                               IF IsQuotaError(res.error)
                               THEN RetrySeconds(res.error) ELSE 0)

\* await fs.writeFile(pageTexPath, ocrContent): the file is written, or the
\* write throws and nothing is written.
WriteFragment ==
  /\ pc = "writeFragment"
  /\ UNCHANGED <<mainTex, totalPages, attempted>>
  /\ \E written \in BOOLEAN :
       IF written
       THEN /\ pageTex' = [pageTex EXCEPT ![pageNum] = ocrContent]
            /\ pc' = "updateManifest"
            /\ lastStep' = [Step("fragment") EXCEPT
                              !.page = pageNum, !.before = pageTex[pageNum]]
            /\ UNCHANGED renderReq
            /\ UNCHANGED <<apiKeySet, loopVars, pageObs>>
            /\ UNCHANGED <<prevBuffer, currBuffer, nextBuffer>>
            /\ UNCHANGED <<runs, unitsAtStart, recordedLog, failedPage,
                           notifyLog, recorded, finalized, runClean>>
       ELSE /\ pageTex' = pageTex
            /\ lastStep' = Step("fragmentFailed")
            /\ AttemptFails(Error("writeFile"), FALSE, 0, 0)

\* A mutant of AfterPage: the page loop stays on the page it has recorded.
AfterPage_Stay(index) == index

\* The page loop's i++.
AfterPage(index) == index + 1

\* The update of main.tex, then success = true, break, and the page loop's
\* i++ and test. When the update throws, main.tex is as it was.
UpdateManifest ==
  /\ pc = "updateManifest"
  /\ UNCHANGED <<pageTex, totalPages, attempted>>
  /\ \E written \in BOOLEAN :
       IF written
       THEN /\ mainTex' = [mainTex EXCEPT
                             !.parts = InsertInclude(mainTex.parts, pageNum)]
            /\ recordedLog' = Append(recordedLog, pageNum)
            /\ lastStep' = [Step("recorded") EXCEPT
                              !.page = pageNum, !.nonQuota = nonQuotaFails,
                              !.quota = quotaFails, !.waited = waited]
            /\ recorded' = recorded \cup {pageNum}
            /\ i' = AfterPage(i)
            /\ BeginPage
            /\ pc' = IF AfterPage(i) < totalPages THEN "render" ELSE "finalize"
            /\ UNCHANGED <<apiKeySet, runs, unitsAtStart, failedPage, notifyLog,
                           finalized, runClean>>
       ELSE /\ mainTex' = mainTex
            /\ lastStep' = Step("manifestFailed")
            /\ AttemptFails(Error("appendFile"), FALSE, 0, 0)

\* How a call of sendPushoverNotification can end: without credentials, with
\* the message posted, or with the post failing (caught and logged).
NotifyOutcomes == {"skipped", "sent", "failed"}

\* A mutant of sendPushoverNotification: a failing post is not caught.
sendPushoverNotification_Uncaught(outcome) == [threw |-> outcome = "failed"]

\* sendPushoverNotification never throws: without credentials it returns, and
\* a failing post is caught and logged.
sendPushoverNotification(outcome) == [threw |-> FALSE]

\* if (!success): the notification, then break. An error thrown by the
\* notification would leave processPdfDocument and end the process.
Notify ==
  /\ pc = "notify"
  /\ \E outcome \in NotifyOutcomes :
       /\ notifyLog' = Append(notifyLog, [page |-> pageNum, retries |-> MAX_RETRIES,
                                          outcome |-> outcome])
       /\ pc' = IF sendPushoverNotification(outcome).threw THEN "idle"
                ELSE "finalize"
  /\ lastStep' = Step("notified")
  /\ UNCHANGED <<fileVars, apiKeySet, loopVars, windowVars, pageObs>>
  /\ UNCHANGED <<runs, unitsAtStart, attempted, recordedLog, failedPage,
                 recorded, finalized, runClean>>

\* The closing step: \end{document} is appended unless main.tex has it.
Finalize ==
  /\ pc = "finalize"
  /\ mainTex' = [mainTex EXCEPT !.parts = FinalContent(mainTex.parts)]
  /\ finalized' = TRUE
  /\ pc' = "done"
  /\ lastStep' = Step("finalized")
  /\ UNCHANGED <<pageTex, totalPages, apiKeySet, loopVars, windowVars, pageObs>>
  /\ UNCHANGED <<runs, unitsAtStart, attempted, recordedLog, failedPage,
                 notifyLog, recorded, runClean>>

\* The process is interrupted from outside between two of its steps; the files
\* stay as they are.
Interrupt ==
  /\ pc \in {"render", "recognize", "writeFragment", "updateManifest", "notify",
             "finalize"}
  /\ pc' = "idle"
  /\ NoProcess
  /\ unitsAtStart' = {} /\ attempted' = <<>> /\ recordedLog' = <<>>
  /\ failedPage' = 0 /\ notifyLog' = <<>>
  /\ runClean' = FALSE
  /\ lastStep' = Step("interrupted")
  /\ UNCHANGED <<fileVars, runs, recorded, finalized>>

Next ==
  \/ StartRun
  \/ BuildWindow
  \/ Recognize
  \/ WriteFragment
  \/ UpdateManifest
  \/ Notify
  \/ Finalize
  \/ Interrupt

\* Runs, interruptions and resumptions over a fresh workspace.
Spec == Init /\ [][Next]_vars

TypeOK ==
  /\ pageTex \in [Pages -> OcrTexts \cup {"", NoFile}]
  /\ mainTex.exists \in BOOLEAN
  /\ totalPages \in Pages
  /\ pc \in {"idle", "render", "recognize", "writeFragment", "updateManifest",
             "notify", "finalize", "done"}
  /\ i \in 0..MaxPages
  /\ attempt \in 0..(MAX_RETRIES + 1)
  /\ runs \in 0..MaxRuns
  /\ reachedWrite \in BOOLEAN
  /\ lastStep.op \in {"none", "start", "window", "call", "fragment",
                      "fragmentFailed", "recorded", "manifestFailed",
                      "notified", "finalized", "interrupted"}
  /\ lastStep.page \in 0..MaxPages

\* A workspace left behind by earlier work: any set of page files, with a
\* main.tex that is absent, fresh, or lists the page files, closed or not.
RECURSIVE IncludesFor(_)
IncludesFor(units) ==
  IF units = {} THEN <<>>
  ELSE LET least == CHOOSE n \in units : \A m \in units : n <= m
       IN <<Include(least)>> \o IncludesFor(units \ {least})

InitAny ==
  /\ pageTex \in [Pages -> {NoFile, "textA"}]
  /\ mainTex \in
       {[exists |-> FALSE, parts |-> <<>>],
        [exists |-> TRUE, parts |-> initialContent],
        [exists |-> TRUE, parts |-> initialContent \o IncludesFor(ExistingUnits)],
        [exists |-> TRUE,
         parts |-> initialContent \o IncludesFor(ExistingUnits) \o <<EndDocument>>]}
  /\ totalPages \in Pages
  /\ pc = "idle"
  /\ apiKeySet = FALSE
  /\ i = 0 /\ attempt = 0 /\ success = FALSE /\ lastError = NoError
  /\ ocrContent = ""
  /\ prevBuffer = NoBuffer /\ currBuffer = NoBuffer /\ nextBuffer = NoBuffer
  /\ renderReq = {}
  /\ nonQuotaFails = 0 /\ quotaFails = 0 /\ owed = 0 /\ waited = 0
  /\ reachedWrite = FALSE /\ lastStep = Step("none")
  /\ runs = MaxRuns - 1
  /\ unitsAtStart = {} /\ attempted = <<>> /\ recordedLog = <<>>
  /\ failedPage = 0 /\ notifyLog = <<>>
  /\ recorded = {n \in ExistingUnits : Include(n) \in {mainTex.parts[k] : k \in 1..Len(mainTex.parts)}}
  /\ finalized = IncludesEndDocument(mainTex.parts)
  /\ runClean = TRUE

\* One run over any workspace.
SpecResume == InitAny /\ [][Next]_vars

\* ------------------------------------------- the earlier driver (part_000)
\* processPdfDocument without a retry loop: every page gets one pass of the
\* loop body, a missing render of the page is answered with continue, and any
\* error with break. The variables of the retry loop and of the notification
\* are not used by it.
retryOnly == <<attempt, success, lastError, nonQuotaFails, quotaFails, owed,
               waited, notifyLog, reachedWrite>>

\* Nothing is kept of the pass before: the consts of the loop body are new.
EarlyNewPass ==
  /\ ocrContent' = ""
  /\ prevBuffer' = NoBuffer /\ currBuffer' = NoBuffer /\ nextBuffer' = NoBuffer
  /\ renderReq' = {}

\* A workspace with the page files 1..k, and a main.tex that is absent (k = 0),
\* fresh, or lists them, closed or not.
InitEarly ==
  /\ totalPages \in Pages
  /\ \E k \in 0..MaxPages :
       pageTex = [n \in Pages |-> IF n <= k THEN "textA" ELSE NoFile]
  /\ mainTex \in
       {[exists |-> TRUE, parts |-> initialContent \o IncludesFor(ExistingUnits)],
        [exists |-> TRUE,
         parts |-> initialContent \o IncludesFor(ExistingUnits) \o <<EndDocument>>]}
       \cup (IF ExistingUnits = {} THEN {[exists |-> FALSE, parts |-> <<>>]}
             ELSE {})
  /\ ExistingUnits \subseteq 1..totalPages
  /\ pc = "idle"
  /\ apiKeySet = FALSE
  /\ i = 0 /\ attempt = 0 /\ success = FALSE /\ lastError = NoError
  /\ ocrContent = ""
  /\ prevBuffer = NoBuffer /\ currBuffer = NoBuffer /\ nextBuffer = NoBuffer
  /\ renderReq = {}
  /\ nonQuotaFails = 0 /\ quotaFails = 0 /\ owed = 0 /\ waited = 0
  /\ reachedWrite = FALSE /\ lastStep = Step("none")
  /\ runs = 0
  /\ unitsAtStart = {} /\ attempted = <<>> /\ recordedLog = <<>>
  /\ failedPage = 0 /\ notifyLog = <<>>
  /\ recorded = ExistingUnits
  /\ finalized = IncludesEndDocument(mainTex.parts)
  /\ runClean = TRUE

\* The start of processPdfDocument: setupWorkspace, the resume scan of the
\* directory, the page count, and the entry into the page loop.
EarlyStartRun ==
  /\ pc \in {"idle", "done"}
  /\ runs < MaxRuns
  /\ \E key \in BOOLEAN :
       \E lastProcessedPage \in ScanResults(DirEntries \cup {MainTexName}) :
         /\ apiKeySet' = key
         /\ i' = lastProcessedPage
         /\ pc' = IF lastProcessedPage < totalPages THEN "render" ELSE "finalize"
  /\ EarlyNewPass
  /\ mainTex' = IF mainTex.exists THEN mainTex
                ELSE [exists |-> TRUE, parts |-> initialContent]
  /\ runs' = runs + 1
  /\ unitsAtStart' = ExistingUnits
  /\ attempted' = <<>> /\ recordedLog' = <<>>
  /\ failedPage' = 0
  /\ runClean' = TRUE
  /\ lastStep' = Step("start")
  /\ UNCHANGED <<pageTex, totalPages, recorded, finalized, retryOnly>>

\* catch (error) { ...; break; }: the page loop is left for the closing step.
EarlyBreak ==
  /\ pc' = "finalize"
  /\ failedPage' = pageNum
  /\ runClean' = FALSE
  /\ EarlyNewPass
  /\ UNCHANGED <<i, apiKeySet, retryOnly>>
  /\ UNCHANGED <<runs, unitsAtStart, recordedLog, recorded, finalized>>

\* continue: the page loop's i++ for a page whose render is missing.
EarlyAfterSkip(index, total) == index + 1

\* The three getImageBuffer calls of a pass and the test of currBuffer, which
\* answers a missing render of the page with continue.
EarlyBuildWindow ==
  /\ pc = "render"
  /\ attempted' = Append(attempted, pageNum)
  /\ UNCHANGED fileVars
  /\ \E oPrev, oCurr, oNext \in RenderOutcomes :
       LET prev == getImageBuffer(pageNum - 1, totalPages, oPrev)
           curr == getImageBuffer(pageNum, totalPages, oCurr)
           next == getImageBuffer(pageNum + 1, totalPages, oNext)
           seen == <<IF prev.asked THEN oPrev ELSE "none",
                     IF curr.asked /\ ~prev.threw THEN oCurr ELSE "none",
                     IF next.asked /\ ~prev.threw /\ ~curr.threw
                     THEN oNext ELSE "none">>
       IN /\ lastStep' = [Step("window") EXCEPT !.seen = seen, !.page = pageNum]
          /\ IF prev.threw \/ curr.threw \/ next.threw
             THEN EarlyBreak
             ELSE IF CurrentMissing(prev.buf, curr.buf, next.buf)
             THEN /\ i' = EarlyAfterSkip(i, totalPages)
                  /\ pc' = IF EarlyAfterSkip(i, totalPages) < totalPages
                           THEN "render" ELSE "finalize"
                  /\ runClean' = FALSE
                  /\ EarlyNewPass
                  /\ UNCHANGED <<apiKeySet, retryOnly, failedPage>>
                  /\ UNCHANGED <<runs, unitsAtStart, recordedLog, recorded,
                                 finalized>>
             ELSE /\ prevBuffer' = prev.buf
                  /\ currBuffer' = curr.buf
                  /\ nextBuffer' = next.buf
                  /\ renderReq' = {n \in {pageNum - 1, pageNum, pageNum + 1} :
                                     \/ n = pageNum - 1 /\ prev.asked
                                     \/ n = pageNum /\ curr.asked
                                     \/ n = pageNum + 1 /\ next.asked}
                  /\ pc' = "recognize"
                  /\ UNCHANGED <<apiKeySet, i, ocrContent, retryOnly, failedPage>>
                  /\ UNCHANGED <<runs, unitsAtStart, recordedLog, recorded,
                                 finalized, runClean>>

\* The call of processPageWithGemini.
EarlyRecognize ==
  /\ pc = "recognize"
  /\ UNCHANGED <<fileVars, attempted>>
  /\ \E outcome \in ServiceOutcomes :
       LET pageImageBuffers == <<prevBuffer, currBuffer, nextBuffer>>
           res == processPageWithGemini(apiKeySet, pageImageBuffers, outcome)
       IN /\ lastStep' = [Step("call") EXCEPT
                            !.answer = AnswerKind(apiKeySet, outcome),
                            !.page = pageNum]
          /\ IF res.ok
             THEN /\ ocrContent' = res.value
                  /\ pc' = "writeFragment"
                  /\ UNCHANGED <<apiKeySet, i, windowVars, retryOnly, failedPage>>
                  /\ UNCHANGED <<runs, unitsAtStart, recordedLog, recorded,
                                 finalized, runClean>>
             ELSE EarlyBreak

\* await fs.writeFile(pageTexPath, ocrContent)
EarlyWriteFragment ==
  /\ pc = "writeFragment"
  /\ UNCHANGED <<mainTex, totalPages, attempted>>
  /\ \E written \in BOOLEAN :
       IF written
       THEN /\ pageTex' = [pageTex EXCEPT ![pageNum] = ocrContent]
            /\ pc' = "updateManifest"
            /\ lastStep' = [Step("fragment") EXCEPT
                              !.page = pageNum, !.before = pageTex[pageNum]]
            /\ UNCHANGED <<apiKeySet, i, ocrContent, windowVars, retryOnly,
                           failedPage>>
            /\ UNCHANGED <<runs, unitsAtStart, recordedLog, recorded, finalized,
                           runClean>>
       ELSE /\ pageTex' = pageTex
            /\ lastStep' = Step("fragmentFailed")
            /\ EarlyBreak

\* The update of main.tex, then the page loop's i++ and test.
EarlyUpdateManifest ==
  /\ pc = "updateManifest"
  /\ UNCHANGED <<pageTex, totalPages, attempted>>
  /\ \E written \in BOOLEAN :
       IF written
       THEN /\ mainTex' = [mainTex EXCEPT
                             !.parts = InsertInclude(mainTex.parts, pageNum)]
            /\ recordedLog' = Append(recordedLog, pageNum)
            /\ recorded' = recorded \cup {pageNum}
            /\ lastStep' = [Step("recorded") EXCEPT !.page = pageNum]
            /\ i' = i + 1
            /\ pc' = IF i + 1 < totalPages THEN "render" ELSE "finalize"
            /\ EarlyNewPass
            /\ UNCHANGED <<apiKeySet, retryOnly, failedPage>>
            /\ UNCHANGED <<runs, unitsAtStart, finalized, runClean>>
       ELSE /\ mainTex' = mainTex
            /\ lastStep' = Step("manifestFailed")
            /\ EarlyBreak

\* The closing step: \end{document} is appended unless main.tex has it.
EarlyFinalize ==
  /\ pc = "finalize"
  /\ mainTex' = [mainTex EXCEPT !.parts = FinalContent(mainTex.parts)]
  /\ finalized' = TRUE
  /\ pc' = "done"
  /\ lastStep' = Step("finalized")
  /\ UNCHANGED <<pageTex, totalPages, apiKeySet, i, ocrContent, windowVars,
                 retryOnly>>
  /\ UNCHANGED <<runs, unitsAtStart, attempted, recordedLog, failedPage,
                 recorded, runClean>>

\* The process is interrupted from outside between two of its steps.
EarlyInterrupt ==
  /\ pc \in {"render", "recognize", "writeFragment", "updateManifest", "finalize"}
  /\ pc' = "idle"
  /\ apiKeySet' = FALSE /\ i' = 0
  /\ EarlyNewPass
  /\ unitsAtStart' = {} /\ attempted' = <<>> /\ recordedLog' = <<>>
  /\ failedPage' = 0
  /\ runClean' = FALSE
  /\ lastStep' = Step("interrupted")
  /\ UNCHANGED <<fileVars, runs, recorded, finalized, retryOnly>>

NextEarly ==
  \/ EarlyStartRun
  \/ EarlyBuildWindow
  \/ EarlyRecognize
  \/ EarlyWriteFragment
  \/ EarlyUpdateManifest
  \/ EarlyFinalize
  \/ EarlyInterrupt

\* Runs of the earlier driver over a workspace holding the pages 1..k.
SpecEarly == InitEarly /\ [][NextEarly]_vars

\* ================================================================= claims
InAttempt == pc \in {"render", "recognize", "writeFragment", "updateManifest"}
PageGivenUp == pc \in {"notify", "finalize", "done"} /\ failedPage # 0
IncludeAt(k) == mainTex.parts[k].t = "include"
SetMax(S) == IF S = {} THEN 0 ELSE CHOOSE m \in S : \A n \in S : n <= m
Range(seq) == {seq[k] : k \in 1..Len(seq)}

\* C1: once exactly MAX_RETRIES attempts on a page have failed with a non-quota
\* error, the page is Failed and the run is at no further attempt step for it;
\* and a page is never Failed after fewer than MAX_RETRIES non-quota failures.
C1_FailedExactlyAfterMaxNonQuotaFailures ==
  /\ nonQuotaFails = MAX_RETRIES => (failedPage = pageNum /\ ~InAttempt)
  /\ failedPage # 0 => nonQuotaFails = MAX_RETRIES

\* C2: a failure the service signals as quota exhaustion never increments the
\* attempt counter: while a page is being attempted the counter is one more than
\* the number of its non-quota failures, and a page given up has had one.
C2_QuotaFailureNeverCounted ==
  /\ InAttempt => attempt = 1 + nonQuotaFails
  /\ failedPage # 0 => nonQuotaFails > 0

\* C3: every quota failure of an attempt is followed by a wait of the duration
\* the service reported (20 s when it reported none) before the next attempt
\* starts: the seconds slept on a page are the seconds its quota failures asked.
C3_QuotaWaitObserved == waited = owed

\* C4: the first page a run attempts is one more than the highest page file that
\* existed at its start (page 1 when there was none), whatever main.tex holds and
\* in whatever order the directory is listed; no page is attempted when that
\* page lies beyond the document.
C4_StartPageIsMaxPlusOne ==
  LET start == SetMax(unitsAtStart) + 1
  IN pc # "idle" =>
       /\ attempted # <<>> => attempted[1] = start
       /\ InAttempt /\ attempted = <<>> => pageNum = start
       /\ start > totalPages => attempted = <<>> /\ ~InAttempt
       /\ start <= totalPages /\ attempted = <<>> => pc = "render"

C4_Witness ==
  /\ unitsAtStart = {1, 2}
  /\ totalPages = 3
  /\ attempted = <<3>>
  /\ IncludesEndDocument(mainTex.parts)

\* C5: the include lines of main.tex are in strictly increasing page order,
\* without duplicates, and all of them precede \end{document} when it is there.
C5_IncludesIncreasingBeforeMarker ==
  LET inc == IncludedPages(mainTex.parts)
  IN /\ \A a, b \in 1..Len(inc) : a < b => inc[a] < inc[b]
     /\ \A k, j \in 1..Len(mainTex.parts) :
          mainTex.parts[k] = EndDocument /\ IncludeAt(j) => j < k

C5_Witness ==
  /\ runs = 2
  /\ recordedLog = <<2>>
  /\ mainTex.parts = <<Preamble, Include(1), Include(2), EndDocument>>

\* C6: a run makes no attempt (render, recognition call, write) on a page whose
\* page file existed when it began, and every page ever recorded has its page
\* file and exactly one include line.
C6_NoReprocessingNoDuplicates ==
  /\ Range(attempted) \cap unitsAtStart = {}
  /\ pc \in {"recognize", "writeFragment", "updateManifest"} =>
       pageNum \notin unitsAtStart
  /\ \A p \in recorded :
       pageTex[p] # NoFile /\ CountOf(mainTex.parts, Include(p)) = 1

C6_Witness ==
  /\ runs = 2
  /\ pc = "done"
  /\ unitsAtStart = {1}
  /\ recordedLog = <<2>>
  /\ recorded = {1, 2}

\* C7: when a page is Failed the run halts there: it attempts no page beyond it
\* and records neither it nor a later one, and sendPushoverNotification is
\* called exactly once, for that page; a run without a Failed page never calls it.
C7_HaltAndNotifyOnce ==
  /\ failedPage # 0 =>
       /\ PageGivenUp /\ pageNum = failedPage
       /\ \A p \in Range(attempted) : p <= failedPage
       /\ \A p \in Range(recordedLog) : p < failedPage
  /\ pc = "notify" => failedPage # 0 /\ notifyLog = <<>>
  /\ pc \in {"finalize", "done"} /\ failedPage # 0 =>
       Len(notifyLog) = 1 /\ notifyLog[1].page = failedPage
  /\ failedPage = 0 => notifyLog = <<>>

C7_Witness ==
  /\ pc = "done"
  /\ failedPage = 2
  /\ totalPages = 3
  /\ recordedLog = <<1>>
  /\ Len(notifyLog) = 1

\* C8: once the page loop of a run has ended and the closing step is done,
\* main.tex holds \end{document} exactly once, as its last part, and keeps it so
\* through every later run, also one that inserts include lines.
C8_MarkerOnceAndLast ==
  (pc = "done" \/ finalized) =>
    /\ CountOf(mainTex.parts, EndDocument) = 1
    /\ mainTex.parts[Len(mainTex.parts)] = EndDocument

C8_Witness ==
  /\ runs = 2
  /\ pc = "done"
  /\ failedPage = 3
  /\ recordedLog = <<2>>
  /\ mainTex.parts = <<Preamble, Include(1), Include(2), EndDocument>>

\* C9: when the recognition call is made for page pageNum of totalPages, the
\* converter was asked for exactly the pages among pageNum - 1, pageNum,
\* pageNum + 1 that lie in 1..totalPages, and the call gets 1 to 3 images, in
\* the order previous, current, next, the current page always among them.
C9_ContextWindow ==
  LET images == imageParts(<<prevBuffer, currBuffer, nextBuffer>>)
  IN pc = "recognize" =>
       /\ renderReq = {n \in {pageNum - 1, pageNum, pageNum + 1} :
                         n >= 1 /\ n <= totalPages}
       /\ pageNum = 1 => prevBuffer = NoBuffer
       /\ pageNum = totalPages => nextBuffer = NoBuffer
       /\ currBuffer = pageNum
       /\ Len(images) \in 1..3
       /\ \A a, b \in 1..Len(images) : a < b => images[a] < images[b]
       /\ \A k \in 1..Len(images) : images[k] \in renderReq
       /\ \E k \in 1..Len(images) : images[k] = pageNum

C9_Witness ==
  /\ pc = "recognize"
  /\ totalPages = 3
  /\ imageParts(<<prevBuffer, currBuffer, nextBuffer>>) = <<1, 2, 3>>

\* C10: over a fresh workspace, a first run in which nothing fails attempts and
\* records the pages 1..totalPages in increasing order, each once, and leaves
\* main.tex as the preamble, the include lines 1..totalPages in that order and
\* \end{document}, with one page file per page.
C10_CleanFirstRun ==
  pc = "done" /\ runs = 1 /\ runClean =>
    /\ attempted = [k \in 1..totalPages |-> k]
    /\ recordedLog = [k \in 1..totalPages |-> k]
    /\ mainTex.parts =
         <<Preamble>> \o [k \in 1..totalPages |-> Include(k)] \o <<EndDocument>>
    /\ ExistingUnits = 1..totalPages

C10_Witness ==
  /\ pc = "done" /\ runs = 1 /\ runClean
  /\ totalPages = 3
  /\ recordedLog = <<1, 2, 3>>


\* C11: a page whose attempts failed once or twice with a non-quota error and
\* then succeeded, with no quota failure in between, is Succeeded: its fragment
\* exists, main.tex holds exactly one reference to it, nothing was slept, no
\* notification was sent, no page is given up, and the run is at the first
\* attempt of the next page (or, after the last page, at the closing step).
C11_RecoveredPageSucceeds ==
  (/\ lastStep.op = "recorded"
   /\ lastStep.nonQuota \in 1..(MAX_RETRIES - 1)
   /\ lastStep.quota = 0)
  => /\ pageTex[lastStep.page] # NoFile
     /\ CountOf(mainTex.parts, Include(lastStep.page)) = 1
     /\ lastStep.waited = 0
     /\ notifyLog = <<>>
     /\ failedPage = 0
     /\ lastStep.page < totalPages
          => pc = "render" /\ pageNum = lastStep.page + 1 /\ attempt = 1
     /\ lastStep.page = totalPages => pc = "finalize"

\* Page 2 of 3 has just been recorded by its third attempt, after two failures.
C11_Witness ==
  /\ lastStep.op = "recorded"
  /\ lastStep.page = 2
  /\ lastStep.nonQuota = MAX_RETRIES - 1
  /\ lastStep.quota = 0
  /\ totalPages = 3
  /\ pc = "render"

\* C12: the attempt in which processPageWithGemini finds GEMINI_API_KEY unset
\* is the last attempt on its page: no further attempt step follows it.
C12_MissingKeyEndsAttempts ==
  (lastStep.op = "call" /\ lastStep.answer = "noKey") => ~InAttempt

\* C13: a response that is not of the expected shape (no text, text that is not
\* JSON, or JSON without a content field) makes its attempt fail: the attempt
\* is counted and the run is at no step that writes from that response.
C13_MalformedResponseIsCountedFailure ==
  (/\ lastStep.op = "call"
   /\ lastStep.answer \in {"noText", "badJson", "jsonNoContent"})
  => /\ pc \in {"render", "notify"}
     /\ nonQuotaFails >= 1
     /\ lastError = Error("API-Anfrage fehlgeschlagen.")

\* C14: an attempt whose render of the current page comes back empty fails at
\* the window step: it writes nothing, does not go on to the recognition call,
\* and is counted like any other non-quota failure (one attempt used, and the
\* page given up when it was the last); its error is the missing page image,
\* unless the render of the page after it threw first. An empty or unrequested neighbour
\* render, with the current page rendered and no render throwing, never fails
\* the attempt: it goes on to the recognition call.
C14_MissingCurrentRenderFailsAttempt ==
  [][(pc = "render" /\ lastStep'.op = "window") =>
       /\ pageTex' = pageTex /\ mainTex' = mainTex
       /\ lastStep'.seen[2] = "empty" =>
            /\ lastError' = IF lastStep'.seen[3] = "throw" THEN Error("converter")
                             ELSE Error("Seitenbild konnte nicht extrahiert werden.")
            /\ nonQuotaFails' = nonQuotaFails + 1
            /\ quotaFails' = quotaFails /\ waited' = waited
            /\ attempt' = attempt + 1
            /\ pc' = IF attempt < MAX_RETRIES THEN "render" ELSE "notify"
            /\ attempt = MAX_RETRIES => failedPage' = pageNum
       /\ (/\ lastStep'.seen[2] = "image"
           /\ lastStep'.seen[1] \in {"image", "empty", "none"}
           /\ lastStep'.seen[3] \in {"image", "empty", "none"}) =>
            /\ pc' = "recognize"
            /\ attempt' = attempt /\ nonQuotaFails' = nonQuotaFails
  ]_vars

\* The first attempt on a page has failed on an empty render of the page, with
\* the render of the page before it present.
C14_Witness ==
  /\ lastStep.op = "window"
  /\ lastStep.seen[1] = "image"
  /\ lastStep.seen[2] = "empty"
  /\ nonQuotaFails = 1
  /\ attempt = 2
  /\ pc = "render"

\* C15: after the latest successful recording of a page, main.tex holds a
\* reference for every page file that exists with an index up to that page.
C15_ManifestHealedUpToRecordedPage ==
  lastStep.op = "recorded" =>
    \A p \in ExistingUnits :
      p <= lastStep.page => Include(p) \in Range(mainTex.parts)

\* C16 as stated: a page file that exists is never rewritten, by no attempt and
\* no run.
C16_ExistingFragmentNeverRewritten ==
  [][\A p \in Pages : pageTex[p] # NoFile => pageTex'[p] = pageTex[p]]_vars

\* C16, amended: a page file is created or changed only by the fragment write
\* of an attempt on that page, with the text that attempt extracted; and it is
\* never changed once the page is recorded in main.tex, nor when it existed at
\* the start of the run. (What remains is the rewrite by a later attempt on the
\* same page in the same run, after a failed update of main.tex.)
C16_FragmentChangedOnlyBeforeRecording ==
  [][\A p \in Pages :
       pageTex'[p] # pageTex[p] =>
         /\ pc = "writeFragment" /\ pageNum = p
         /\ reachedWrite
         /\ pageTex'[p] = ocrContent
         /\ p \notin recorded
         /\ p \notin unitsAtStart
    ]_vars

\* A retry after a failed update of main.tex has just replaced the text of the
\* page file by another, in a run that began with page 1 already recorded.
C16_Witness ==
  /\ lastStep.op = "fragment"
  /\ lastStep.page = 2
  /\ lastStep.before = "textA"
  /\ pageTex[2] = ""
  /\ lastError = Error("appendFile")
  /\ recorded = {1}
  /\ unitsAtStart = {1}

\* C17: the notification step, whether the message was posted, the post failed
\* or the credentials were absent, leaves every page file and main.tex as they
\* were and is followed by the closing step; and a run that has notified and
\* ended has \end{document} in main.tex.
C17_NotificationIsBestEffort ==
  /\ [][(pc = "notify" /\ lastStep'.op = "notified") =>
          /\ pc' = "finalize"
          /\ pageTex' = pageTex /\ mainTex' = mainTex
          /\ Len(notifyLog') = Len(notifyLog) + 1
          /\ notifyLog'[Len(notifyLog')].outcome \in NotifyOutcomes
       ]_vars
  /\ [](pc = "done" /\ notifyLog # <<>> =>
          /\ finalized
          /\ CountOf(mainTex.parts, EndDocument) = 1)

\* A run that gave up page 2, whose notification could not be posted, has ended
\* with page 1 recorded and the document closed.
C17_Witness ==
  /\ pc = "done"
  /\ lastStep.op = "finalized"
  /\ Len(notifyLog) = 1
  /\ notifyLog[1].outcome = "failed"
  /\ notifyLog[1].page = 2
  /\ mainTex.parts = <<Preamble, Include(1), EndDocument>>

\* C18: a failure on which the service signalled quota exhaustion keeps the run
\* on the same page, however often it recurs: the next step is another attempt
\* on that page, which is neither given up nor left.
C18_QuotaFailureKeepsPage ==
  [][quotaFails' = quotaFails + 1 =>
       /\ pc' = "render"
       /\ i' = i
       /\ failedPage' = 0
    ]_vars

\* C19: every attempt, the first on a page as well as one that follows a failed
\* attempt, begins at the renders with nothing kept of an earlier window; and
\* within an attempt the steps come in the order renders, recognition call,
\* fragment write, update of main.tex, each reached only from the one before
\* it, with the window that the renders of this attempt produced.
C19_RendersFirstInEveryAttempt ==
  /\ [][/\ (attempt' # attempt /\ pc' \in {"render", "recognize", "writeFragment",
                                          "updateManifest"}) =>
             /\ pc' = "render"
             /\ prevBuffer' = NoBuffer /\ currBuffer' = NoBuffer
             /\ nextBuffer' = NoBuffer /\ renderReq' = {}
        /\ pc' = "recognize" => pc = "render" /\ lastStep'.op = "window"
        /\ pc' = "writeFragment" => pc = "recognize" /\ attempt' = attempt
        /\ pc' = "updateManifest" => pc = "writeFragment" /\ attempt' = attempt
       ]_vars
  /\ [](pc = "render" =>
          /\ prevBuffer = NoBuffer /\ currBuffer = NoBuffer /\ nextBuffer = NoBuffer
          /\ renderReq = {})
  /\ [](pc \in {"recognize", "writeFragment", "updateManifest"} =>
          currBuffer = pageNum /\ pageNum \in renderReq)

\* The third attempt on page 2, after a failed recognition call and a failed
\* update of main.tex, has rendered its own window and come to the update.
C19_Witness ==
  /\ pc = "updateManifest"
  /\ attempt = MAX_RETRIES
  /\ pageNum = 2
  /\ lastError = Error("appendFile")
  /\ prevBuffer = 1 /\ currBuffer = 2 /\ nextBuffer = 3
  /\ renderReq = {1, 2, 3}

\* C20: no step taken from the renders or from the recognition call changes a
\* page file or main.tex. Hence a page given up after attempts that all failed
\* there has no page file and no include line, and the next run starts its
\* page loop at exactly that page.
C20_FailedAttemptLeavesFilesAndResumePoint ==
  /\ [][(pc = "render" \/ pc = "recognize") =>
          (pageTex' = pageTex /\ mainTex' = mainTex)
       ]_vars
  /\ [](PageGivenUp /\ ~reachedWrite =>
          /\ pageTex[failedPage] = NoFile
          /\ Include(failedPage) \notin Range(mainTex.parts))
  /\ [][(pc = "done" /\ failedPage # 0 /\ ~reachedWrite /\ lastStep'.op = "start")
          => (i' + 1 = failedPage /\ pc' = "render" /\ attempt' = 1)
       ]_vars

\* A second run has started at page 2, the page the first run gave up after
\* three attempts that failed at the recognition call, with no page file for it.
C20_Witness ==
  /\ lastStep.op = "start"
  /\ lastStep.page = 2
  /\ lastStep.before = NoFile
  /\ runs = 2
  /\ pc = "render" /\ pageNum = 2 /\ attempt = 1
  /\ pageTex[2] = NoFile
  /\ mainTex.parts = <<Preamble, Include(1), EndDocument>>

\* C21: in the earlier driver, started over the page files 1..k, the page files
\* that exist are at every point of a run the pages 1..m for some m, and a page
\* is attempted only when every page before it has its page file.
C21_EarlyDriverGapFree ==
  /\ ExistingUnits = 1..SetMax(ExistingUnits)
  /\ pc \in {"recognize", "writeFragment", "updateManifest"} =>
       \A p \in 1..(pageNum - 1) : pageTex[p] # NoFile

====
